---- MODULE Spec2Model ----
(***************************************************************************)
(* Model of package transform (pkg/transform/unmarshal.go): the lenient    *)
(* decoder Unmarshal with its dispatcher, the record assigner MapToStruct, *)
(* the collection paths UnmarshalSlice / UnmarshalSliceOfMaps and the five *)
(* converters.                                                             *)
(*                                                                         *)
(* Representation.                                                         *)
(*  - A Go string is a sequence of one-character strings, so that          *)
(*    strconv.Atoi / ParseFloat / Itoa / FormatFloat are computed.         *)
(*  - A float64 is a fixed-point number counted in tenths (25 is 2.5); the *)
(*    model keeps to values with at most one fractional digit and a small  *)
(*    magnitude, where float64 arithmetic is exact.                        *)
(*  - A generic value (interface{} inside a mapping) is a tagged record    *)
(*    [t |-> dynamic type, v |-> payload].                                 *)
(*  - An error is the sequence multierr.Errors gives for it: <<>> is nil,  *)
(*    a one-element sequence is a single error.                            *)
(*  - Go visits the keys of a map in an unspecified order: every call      *)
(*    takes the visit order as an argument and the actions draw it from    *)
(*    all permutations.                                                    *)
(***************************************************************************)
EXTENDS Integers, Sequences, FiniteSets, TLC

VARIABLES pc, call, pre, out

vars == <<pc, call, pre, out>>

----------------------------------------------------------------------------
(* Bounds of the model. *)

\* most keys in a mapping handed to UnmarshalMap
MaxKeys == 3

\* most items in a list handed to the collection paths
MaxItems == 2

\* most records a destination collection holds before the call
MaxPrior == 1

----------------------------------------------------------------------------
(* Generic values. *)

\* the payload has its own field name per dynamic type
Str(s) == [t |-> "string", s |-> s]
Int_(n) == [t |-> "int", n |-> n]
Flt(x) == [t |-> "float64", x |-> x]
Bool_(b) == [t |-> "bool", b |-> b]
Lst(l) == [t |-> "slice", l |-> l]
Nil == [t |-> "nil"]

Digits == <<"0", "1", "2", "3", "4", "5", "6", "7", "8", "9">>

IsDigit(c) == \E i \in 1..10 : Digits[i] = c

DigitVal(c) == (CHOOSE i \in 1..10 : Digits[i] = c) - 1

RECURSIVE NatDigits(_)
\* decimal digits of a natural number
NatDigits(n) ==
    IF n < 10 THEN <<Digits[n + 1]>>
    ELSE NatDigits(n \div 10) \o <<Digits[(n % 10) + 1]>>

\* strconv.Itoa
Itoa(n) == IF n < 0 THEN <<"-">> \o NatDigits(-n) ELSE NatDigits(n)

\* strconv.FormatFloat(v, 'f', -1, 64) of a value in tenths: the shortest
\* decimal that round-trips, no trailing zero, no exponent
FormatFloat(x) ==
    LET a == IF x < 0 THEN -x ELSE x
        sign == IF x < 0 THEN <<"-">> ELSE <<>>
    IN  sign \o NatDigits(a \div 10)
             \o (IF a % 10 = 0 THEN <<>> ELSE <<".", Digits[(a % 10) + 1]>>)

RECURSIVE DigitsVal(_, _)
\* value of a run of decimal digits, most significant first
DigitsVal(s, acc) ==
    IF s = <<>> THEN acc ELSE DigitsVal(Tail(s), acc * 10 + DigitVal(Head(s)))

AllDigits(s) == \A i \in 1..Len(s) : IsDigit(s[i])

HasSign(s) == Len(s) > 0 /\ s[1] \in {"+", "-"}

Unsigned(s) == IF HasSign(s) THEN Tail(s) ELSE s

SignOf(s) == IF Len(s) > 0 /\ s[1] = "-" THEN -1 ELSE 1

\* strconv.Atoi: an optional sign and at least one decimal digit; gives
\* [val, ok, cause], ok being err == nil
Atoi(s) ==
    IF Len(Unsigned(s)) > 0 /\ AllDigits(Unsigned(s))
    THEN [val |-> SignOf(s) * DigitsVal(Unsigned(s), 0), ok |-> TRUE,
          cause |-> "none"]
    ELSE [val |-> 0, ok |-> FALSE, cause |-> "strconv.Atoi"]

\* position of the first "." of s, or Len(s) + 1
DotPos(s) ==
    IF \E i \in 1..Len(s) : s[i] = "."
    THEN CHOOSE i \in 1..Len(s) : s[i] = "." /\ \A j \in 1..(i - 1) : s[j] # "."
    ELSE Len(s) + 1

\* the decimal sign * ip.fp in tenths, when ip and fp are runs of digits
\* and not both empty
ParseDecimal(sign, ip, fp) ==
    IF AllDigits(ip) /\ AllDigits(fp) /\ Len(ip) + Len(fp) > 0
    THEN [val |-> sign * (DigitsVal(ip, 0) * 10
                          + (IF fp = <<>> THEN 0 ELSE DigitVal(fp[1]))),
          ok |-> TRUE, cause |-> "none"]
    ELSE [val |-> 0, ok |-> FALSE, cause |-> "strconv.ParseFloat"]

\* the part of u before position d and the part after it
SplitAt(sign, u, d) == ParseDecimal(sign, SubSeq(u, 1, d - 1), SubSeq(u, d + 1, Len(u)))

\* strconv.ParseFloat(s, 64), in tenths: an optional sign, digits, an optional
\* "." and digits, at least one digit in all (the decimal forms without
\* exponent; fractional digits past the first are beyond the fixed point);
\* gives [val, ok, cause], ok being err == nil
ParseFloat(s) == SplitAt(SignOf(s), Unsigned(s), DotPos(Unsigned(s)))

RECURSIVE Sprintv(_)
RECURSIVE SprintvList(_)
\* fmt.Sprintf("%v", value)
Sprintv(g) ==
    CASE g.t = "string" -> g.s
      [] g.t = "int" -> Itoa(g.n)
      [] g.t = "float64" -> FormatFloat(g.x)
      [] g.t = "bool" -> IF g.b THEN <<"t", "r", "u", "e">>
                         ELSE <<"f", "a", "l", "s", "e">>
      [] g.t = "slice" -> <<"[">> \o SprintvList(g.l) \o <<"]">>
      [] OTHER -> <<"<", "n", "i", "l", ">">>

SprintvList(l) ==
    IF l = <<>> THEN <<>>
    ELSE IF Len(l) = 1 THEN Sprintv(l[1])
    ELSE Sprintv(l[1]) \o <<" ">> \o SprintvList(Tail(l))

\* float64 -> int conversion: truncation toward zero
TruncToInt(x) == IF x >= 0 THEN x \div 10 ELSE -((-x) \div 10)

----------------------------------------------------------------------------
(* The converters: each gives [val, ok, cause]; ok is err == nil. *)

ConvertString(value) ==
    CASE value.t = "string" -> [val |-> value.s, ok |-> TRUE, cause |-> "none"]
      [] value.t = "float64" ->
            [val |-> FormatFloat(value.x), ok |-> TRUE, cause |-> "none"]
      [] value.t = "int" -> [val |-> Itoa(value.n), ok |-> TRUE, cause |-> "none"]
      [] OTHER -> [val |-> Sprintv(value), ok |-> TRUE, cause |-> "none"]

ConvertInt(value) ==
    CASE value.t = "string" -> Atoi(value.s)
      [] value.t = "float64" ->
            [val |-> TruncToInt(value.x), ok |-> TRUE, cause |-> "none"]
      [] OTHER -> Atoi(Sprintv(value))

ConvertFloat64(value) ==
    CASE value.t = "string" -> ParseFloat(value.s)
      [] value.t = "int" -> [val |-> value.n * 10, ok |-> TRUE, cause |-> "none"]
      [] OTHER -> ParseFloat(Sprintv(value))

ConvertBool(value) ==
    IF value.t = "bool"
    THEN [val |-> value.b, ok |-> TRUE, cause |-> "none"]
    ELSE [val |-> FALSE, ok |-> FALSE, cause |-> "cannot convert value to bool"]

ConvertSlice(value) ==
    IF value.t = "slice"
    THEN [val |-> value.l, ok |-> TRUE, cause |-> "none"]
    ELSE [val |-> <<>>, ok |-> FALSE, cause |-> "cannot convert value to slice"]

----------------------------------------------------------------------------
(* Errors. *)

\* &FieldError{field: key, err: err, fieldAffected: true}
FieldError(key, cause) ==
    [type |-> "FieldError", field |-> key, err |-> cause, fieldAffected |-> TRUE]

\* fmt.Errorf(msg, arg): a plain error, not a FieldError
Errorf(msg, arg) == [type |-> "error", msg |-> msg, arg |-> arg]

\* the error of json.Unmarshal: a syntax error, or a value of one JSON kind
\* met where Go type into was wanted
JsonError(what, value, into) ==
    [type |-> "error", msg |-> what, value |-> value, into |-> into]

\* MultierrAppend with the collected errors overwritten (multiErr = e)
MultierrKeepLast(multiErr, e) == <<e>>

\* multierr.Append(multiErr, e) for a non-nil e, seen through multierr.Errors
MultierrAppend(multiErr, e) == Append(multiErr, e)

----------------------------------------------------------------------------
(* Destination types and values (what reflect sees). *)

\* the kinds the switch of MapToStruct recognizes
SupportedKinds == {"string", "int", "float64", "bool", "slice"}

\* type Car of the tests, with an unexported field added: FieldByName finds
\* it and CanSet is false
Car ==
    [Brand |-> [kind |-> "string", settable |-> TRUE],
     Year |-> [kind |-> "int", settable |-> TRUE],
     Used |-> [kind |-> "bool", settable |-> TRUE],
     Price |-> [kind |-> "float64", settable |-> TRUE],
     Tags |-> [kind |-> "slice", settable |-> TRUE],
     secret |-> [kind |-> "string", settable |-> FALSE]]

\* Car with two more exported fields, of kinds outside the switch
CarExt ==
    [Brand |-> [kind |-> "string", settable |-> TRUE],
     Year |-> [kind |-> "int", settable |-> TRUE],
     Used |-> [kind |-> "bool", settable |-> TRUE],
     Price |-> [kind |-> "float64", settable |-> TRUE],
     Tags |-> [kind |-> "slice", settable |-> TRUE],
     secret |-> [kind |-> "string", settable |-> FALSE],
     Meta |-> [kind |-> "map", settable |-> TRUE],
     Owner |-> [kind |-> "struct", settable |-> TRUE]]

\* the zero value of a kind
ZeroOf(kind) ==
    CASE kind = "string" -> <<>>
      [] kind = "int" -> 0
      [] kind = "float64" -> 0
      [] kind = "bool" -> FALSE
      [] OTHER -> <<>>

\* reflect.New(t).Elem() of a struct type: every field at its zero value
Zero(typ) == [f \in DOMAIN typ |-> ZeroOf(typ[f].kind)]

\* a pointer to a struct of type typ holding rec
StructPtr(typ, rec) == [kind |-> "struct", type |-> typ, rec |-> rec]

\* a pointer to a slice of structs of type typ holding recs
SlicePtr(typ, recs) == [kind |-> "slice", type |-> typ, recs |-> recs]

\* what a call gives back: the error, the destination after it, and the
\* history of the steps it took (keys visited, decodes tried, items started)
Outcome(e, result, lg) == [err |-> e, result |-> result, log |-> lg]

----------------------------------------------------------------------------
(* MapToStruct. *)

\* the switch on field.Kind(): the converter of a supported kind
Convert(kind, value) ==
    CASE kind = "string" -> ConvertString(value)
      [] kind = "int" -> ConvertInt(value)
      [] kind = "float64" -> ConvertFloat64(value)
      [] kind = "bool" -> ConvertBool(value)
      [] OTHER -> ConvertSlice(value)

\* SetOrCollect with field.Set outside the else: a failed conversion writes
\* the converter's zero result
SetOrCollectAlwaysSet(rec, key, multiErr, c) ==
    [rec |-> [rec EXCEPT ![key] = c.val],
     multiErr |-> IF c.ok THEN multiErr
                  ELSE MultierrAppend(multiErr, FieldError(key, c.cause)),
     ret |-> FALSE]

\* SetOrCollect returning at the first failed conversion
SetOrCollectFailFast(rec, key, multiErr, c) ==
    IF ~c.ok
    THEN [rec |-> rec,
          multiErr |-> MultierrAppend(multiErr, FieldError(key, c.cause)),
          ret |-> TRUE]
    ELSE [rec |-> [rec EXCEPT ![key] = c.val], multiErr |-> multiErr, ret |-> FALSE]

\* if err != nil { multiErr = multierr.Append(...) } else { field.Set(...) }
\* for the conversion c of the value under key
SetOrCollect(rec, key, multiErr, c) ==
    IF ~c.ok
    THEN [rec |-> rec,
          multiErr |-> MultierrAppend(multiErr, FieldError(key, c.cause)),
          ret |-> FALSE]
    ELSE [rec |-> [rec EXCEPT ![key] = c.val], multiErr |-> multiErr, ret |-> FALSE]

\* AssignField rejecting a key that names no field
AssignFieldStrict(typ, rec, key, value, multiErr) ==
    IF key \notin DOMAIN typ
    THEN [rec |-> rec, multiErr |-> <<Errorf("unknown field", key)>>, ret |-> TRUE]
    ELSE IF ~typ[key].settable
    THEN [rec |-> rec, multiErr |-> multiErr, ret |-> FALSE]
    ELSE IF typ[key].kind \notin SupportedKinds
    THEN [rec |-> rec,
          multiErr |-> <<Errorf("unsupported field type", typ[key].kind)>>,
          ret |-> TRUE]
    ELSE SetOrCollect(rec, key, multiErr, Convert(typ[key].kind, value))

\* AssignField collecting the unsupported field type with the FieldErrors
\* and going on
AssignFieldCollectUnsupported(typ, rec, key, value, multiErr) ==
    IF key \notin DOMAIN typ
    THEN [rec |-> rec, multiErr |-> multiErr, ret |-> FALSE]
    ELSE IF ~typ[key].settable
    THEN [rec |-> rec, multiErr |-> multiErr, ret |-> FALSE]
    ELSE IF typ[key].kind \notin SupportedKinds
    THEN [rec |-> rec,
          multiErr |-> MultierrAppend(multiErr,
                           Errorf("unsupported field type", typ[key].kind)),
          ret |-> FALSE]
    ELSE SetOrCollect(rec, key, multiErr, Convert(typ[key].kind, value))

\* One pass of the loop body for (key, value): the record and the collected
\* errors after it, and whether the function returned (ret), then with
\* the error it returned.
AssignField(typ, rec, key, value, multiErr) ==
    IF key \notin DOMAIN typ
    THEN [rec |-> rec, multiErr |-> multiErr, ret |-> FALSE]
    ELSE IF ~typ[key].settable
    THEN [rec |-> rec, multiErr |-> multiErr, ret |-> FALSE]
    ELSE IF typ[key].kind \notin SupportedKinds
    THEN [rec |-> rec,
          multiErr |-> <<Errorf("unsupported field type", typ[key].kind)>>,
          ret |-> TRUE]
    ELSE SetOrCollect(rec, key, multiErr, Convert(typ[key].kind, value))

RECURSIVE MapRange(_, _, _, _, _, _)

\* after the pass s of the loop body: return, or go on with the next key
NextKey(data, typ, order, lg, s) ==
    IF s.ret
    THEN [err |-> s.multiErr, rec |-> s.rec, log |-> lg]
    ELSE MapRange(data, typ, s.rec, Tail(order), s.multiErr, lg)

\* for key, value := range data, the keys visited in the given order; after
\* the loop, return multiErr
MapRange(data, typ, rec, order, multiErr, lg) ==
    IF order = <<>>
    THEN [err |-> multiErr, rec |-> rec, log |-> lg]
    ELSE NextKey(data, typ, order, Append(lg, <<"key", Head(order)>>),
                 AssignField(typ, rec, Head(order), data[Head(order)], multiErr))

\* the outcome of MapToStruct for what the loop r left
StructOutcome(result, r) == Outcome(r.err, [result EXCEPT !.rec = r.rec], r.log)

MapToStruct(data, result, order) ==
    IF result.kind # "struct"
    THEN Outcome(<<Errorf("result should be a pointer to a struct", "")>>,
                 result, <<>>)
    ELSE StructOutcome(result,
                       MapRange(data, result.type, result.rec, order, <<>>, <<>>))

----------------------------------------------------------------------------
(* encoding/json, as far as the package uses it.  A document is what the   *)
(* bytes or the text spell: an object, an array, a scalar, or no JSON.     *)

JObj(m) == [j |-> "object", obj |-> m]
JArr(l) == [j |-> "array", arr |-> l]
JNum(x) == [j |-> "number", num |-> x]
JStr(s) == [j |-> "string", str |-> s]
JBool(b) == [j |-> "bool", bool |-> b]
JNull == [j |-> "null"]
JBad == [j |-> "invalid"]

RECURSIVE FromJSON(_)
\* decoding into interface{}: every number is a float64
FromJSON(d) ==
    CASE d.j = "number" -> Flt(d.num)
      [] d.j = "string" -> Str(d.str)
      [] d.j = "bool" -> Bool_(d.bool)
      [] d.j = "array" -> Lst([i \in 1..Len(d.arr) |-> FromJSON(d.arr[i])])
      [] OTHER -> Nil

RECURSIVE ToJSON(_)
\* json.Marshal of a generic value: an int is written as a number
ToJSON(g) ==
    CASE g.t = "string" -> JStr(g.s)
      [] g.t = "int" -> JNum(g.n * 10)
      [] g.t = "float64" -> JNum(g.x)
      [] g.t = "bool" -> JBool(g.b)
      [] g.t = "slice" -> JArr([i \in 1..Len(g.l) |-> ToJSON(g.l[i])])
      [] OTHER -> JNull

\* json.Marshal of a mapping
EncodeMap(m) == JObj([k \in DOMAIN m |-> ToJSON(m[k])])

\* json.Marshal of a list of mappings
EncodeList(l) == JArr([i \in 1..Len(l) |-> EncodeMap(l[i])])

\* the mapping a decoded object (or null) stands for
ObjMap(d) ==
    IF d.j = "object" THEN [k \in DOMAIN d.obj |-> FromJSON(d.obj[k])] ELSE <<>>

\* json.Unmarshal(data, &raw), raw a map[string]interface{}
DecodeMap(d) ==
    CASE d.j = "invalid" -> [ok |-> FALSE, val |-> <<>>,
                             err |-> JsonError("json.SyntaxError", "", "")]
      [] d.j \in {"object", "null"} ->
            [ok |-> TRUE, val |-> ObjMap(d), err |-> <<>>]
      [] OTHER -> [ok |-> FALSE, val |-> <<>>,
                   err |-> JsonError("json.UnmarshalTypeError",
                                     d.j, "map[string]interface {}")]

\* json.Unmarshal(data, &rawSlice), rawSlice a []map[string]interface{}
DecodeSliceOfMaps(d) ==
    CASE d.j = "invalid" -> [ok |-> FALSE, val |-> <<>>,
                             err |-> JsonError("json.SyntaxError", "", "")]
      [] d.j = "null" -> [ok |-> TRUE, val |-> <<>>, err |-> <<>>]
      [] d.j = "array" ->
            IF \A i \in 1..Len(d.arr) : d.arr[i].j \in {"object", "null"}
            THEN [ok |-> TRUE, val |-> [i \in 1..Len(d.arr) |-> ObjMap(d.arr[i])],
                  err |-> <<>>]
            ELSE LET i == CHOOSE i \in 1..Len(d.arr) :
                              /\ d.arr[i].j \notin {"object", "null"}
                              /\ \A h \in 1..(i - 1) : d.arr[h].j \in {"object", "null"}
                 IN  [ok |-> FALSE, val |-> <<>>,
                      err |-> JsonError("json.UnmarshalTypeError",
                                        d.arr[i].j, "map[string]interface {}")]
      [] OTHER -> [ok |-> FALSE, val |-> <<>>,
                   err |-> JsonError("json.UnmarshalTypeError",
                                     d.j, "[]map[string]interface {}")]

----------------------------------------------------------------------------
(* The dispatcher and the entry points.  data is [shape, v]: the dynamic   *)
(* type of the interface{} and its value.  ord is the visit order of the   *)
(* keys of the mapping the call ranges over, or one such order per item.   *)

MapData(m) == [shape |-> "map", m |-> m]
BytesData(d) == [shape |-> "bytes", bytes |-> d]
StringData(d) == [shape |-> "string", text |-> d]
SliceData(l) == [shape |-> "slice", items |-> l]
SliceOfMapsData(l) == [shape |-> "sliceOfMaps", maps |-> l]
OtherData(shape) == [shape |-> shape]

\* the i-th order of ord, or none when ord holds fewer
OrdAt(ord, i) == IF i \in DOMAIN ord THEN ord[i] ELSE <<>>

\* the outcome r with the steps in prefix taken before it
After(prefix, r) == Outcome(r.err, r.result, prefix \o r.log)

RECURSIVE Unmarshal(_, _, _)
RECURSIVE SliceRange(_, _, _, _, _, _)

\* NextItem setting the destination to the items converted so far when an
\* item fails
NextItemCommitPartial(items, result, ord, i, resultValue, lg, r) ==
    IF r.err # <<>>
    THEN Outcome(r.err, [result EXCEPT !.recs = resultValue], lg \o r.log)
    ELSE SliceRange(items, result, ord, i + 1,
                    Append(resultValue, r.result.rec), lg \o r.log)

\* NextItem putting the new record in front
NextItemPrepend(items, result, ord, i, resultValue, lg, r) ==
    IF r.err # <<>>
    THEN Outcome(r.err, result, lg \o r.log)
    ELSE SliceRange(items, result, ord, i + 1,
                    <<r.result.rec>> \o resultValue, lg \o r.log)

\* after item i gave r: return its error, or append the new record to
\* resultValue and go on
NextItem(items, result, ord, i, resultValue, lg, r) ==
    IF r.err # <<>>
    THEN Outcome(r.err, result, lg \o r.log)
    ELSE SliceRange(items, result, ord, i + 1,
                    Append(resultValue, r.result.rec), lg \o r.log)

\* for _, item := range data: items i.. of the list, resultValue the slice
\* built so far; after the loop the destination is set to it
SliceRange(items, result, ord, i, resultValue, lg) ==
    IF i > Len(items)
    THEN Outcome(<<>>, [result EXCEPT !.recs = resultValue], lg)
    ELSE NextItem(items, result, ord, i, resultValue, Append(lg, <<"item", i>>),
                  Unmarshal(items[i], StructPtr(result.type, Zero(result.type)),
                            OrdAt(ord, i)))

UnmarshalSlice(data, result, ord) ==
    IF result.kind # "slice"
    THEN Outcome(<<Errorf("result should be a pointer to a slice", "")>>,
                 result, <<>>)
    ELSE SliceRange(data, result, ord, 1, result.recs, <<>>)

\* UnmarshalSliceOfMaps building the collection from empty
UnmarshalSliceOfMapsReplace(data, result, ord) ==
    IF result.kind # "slice"
    THEN Outcome(<<Errorf("result should be a pointer to a slice", "")>>,
                 result, <<>>)
    ELSE SliceRange([i \in 1..Len(data) |-> MapData(data[i])],
                    result, ord, 1, <<>>, <<>>)

UnmarshalSliceOfMaps(data, result, ord) ==
    IF result.kind # "slice"
    THEN Outcome(<<Errorf("result should be a pointer to a slice", "")>>,
                 result, <<>>)
    ELSE SliceRange([i \in 1..Len(data) |-> MapData(data[i])],
                    result, ord, 1, result.recs, <<>>)

UnmarshalMap(data, result, ord) == MapToStruct(data, result, ord)

\* UnmarshalString once json.Unmarshal gave d
StringDecoded(d, result, ord) ==
    IF ~d.ok
    THEN Outcome(<<d.err>>, result, <<<<"decodeMap">>>>)
    ELSE After(<<<<"decodeMap">>>>, MapToStruct(d.val, result, ord))

UnmarshalString(data, result, ord) == StringDecoded(DecodeMap(data), result, ord)

\* UnmarshalBytes once the second json.Unmarshal gave ds
BytesDecodedList(ds, result, ord) ==
    IF ~ds.ok
    THEN Outcome(<<ds.err>>, result, <<<<"decodeMap">>, <<"decodeList">>>>)
    ELSE After(<<<<"decodeMap">>, <<"decodeList">>>>,
               Unmarshal(SliceData([i \in 1..Len(ds.val) |-> MapData(ds.val[i])]),
                         result, ord))

\* BytesDecoded trying the list first and returning the first decode's error
BytesDecodedListFirst(d, data, result, ord) ==
    IF DecodeSliceOfMaps(data).ok
    THEN BytesDecodedList(DecodeSliceOfMaps(data), result, ord)
    ELSE IF d.ok
    THEN After(<<<<"decodeList">>, <<"decodeMap">>>>, MapToStruct(d.val, result, ord))
    ELSE Outcome(<<d.err>>, result, <<<<"decodeList">>, <<"decodeMap">>>>)

\* UnmarshalBytes once the first json.Unmarshal gave d
BytesDecoded(d, data, result, ord) ==
    IF d.ok
    THEN After(<<<<"decodeMap">>>>, MapToStruct(d.val, result, ord))
    ELSE BytesDecodedList(DecodeSliceOfMaps(data), result, ord)

UnmarshalBytes(data, result, ord) == BytesDecoded(DecodeMap(data), data, result, ord)

\* Unmarshal without the default case
UnmarshalDefaultNil(data, result, ord) ==
    CASE data.shape = "bytes" -> UnmarshalBytes(data.bytes, result, ord)
      [] data.shape = "string" -> UnmarshalString(data.text, result, ord)
      [] data.shape = "map" -> UnmarshalMap(data.m, result, ord)
      [] data.shape = "slice" -> UnmarshalSlice(data.items, result, ord)
      [] data.shape = "sliceOfMaps" -> UnmarshalSliceOfMaps(data.maps, result, ord)
      [] OTHER -> Outcome(<<>>, result, <<>>)

Unmarshal(data, result, ord) ==
    CASE data.shape = "bytes" -> UnmarshalBytes(data.bytes, result, ord)
      [] data.shape = "string" -> UnmarshalString(data.text, result, ord)
      [] data.shape = "map" -> UnmarshalMap(data.m, result, ord)
      [] data.shape = "slice" -> UnmarshalSlice(data.items, result, ord)
      [] data.shape = "sliceOfMaps" -> UnmarshalSliceOfMaps(data.maps, result, ord)
      [] OTHER -> Outcome(<<Errorf("unsupported data type", data.shape)>>,
                          result, <<>>)

----------------------------------------------------------------------------
(* The callers' inputs. *)

\* the keys mappings are built from, in a fixed reference order: the fields
\* of the record types and one key ("Extra") that names no field
KeyList ==
    <<"Brand", "Year", "Used", "Price", "Tags", "secret", "Meta", "Owner", "Extra">>

Keys == {KeyList[i] : i \in 1..Len(KeyList)}

\* the values a caller puts under a key: for each field one that converts
\* and one that does not convert or is coerced from another type
Candidates(k) ==
    CASE k = "Brand" -> {Str(<<"A">>), Int_(7)}
      [] k = "Year" -> {Str(<<"1", "2">>), Str(<<"A">>), Flt(25)}
      [] k = "Used" -> {Bool_(TRUE), Str(<<"t", "r", "u", "e">>)}
      [] k = "Price" -> {Str(<<"2", ".", "5">>), Str(<<"B">>)}
      [] k = "Tags" -> {Lst(<<Int_(1)>>), Int_(7)}
      [] OTHER -> {Str(<<"A">>)}

\* the mappings over the key set ks
MapsOver(ks) ==
    {m \in [ks -> UNION {Candidates(k) : k \in ks}] :
        \A k \in ks : m[k] \in Candidates(k)}

\* the mappings handed to Unmarshal directly
Mappings ==
    UNION {MapsOver(ks) : ks \in {x \in SUBSET Keys : Cardinality(x) <= MaxKeys}}

\* the mappings lists and documents are built from
ItemPool ==
    {[Brand |-> Str(<<"A">>), Year |-> Int_(7)],
     [Year |-> Str(<<"1", "2">>), Tags |-> Lst(<<Int_(1)>>)],
     [Tags |-> Lst(<<Str(<<"A">>)>>), Price |-> Flt(25)],
     [Year |-> Str(<<"A">>), Price |-> Str(<<"B">>)],
     [Used |-> Str(<<"A">>), Brand |-> Str(<<"A">>)],
     [Meta |-> Str(<<"A">>), Year |-> Str(<<"A">>)]}

\* the sequences over pool of at most MaxItems items
Lists(pool) == UNION {[1..n -> pool] : n \in 0..MaxItems}

\* the documents handed over as bytes or as text
Docs ==
    {EncodeMap(m) : m \in ItemPool}
        \cup {EncodeList(l) : l \in Lists(ItemPool)}
        \cup {JNull, JNum(50), JArr(<<JNum(50)>>), JBad}

\* the input shapes outside the five the dispatcher knows (123 in the tests)
OtherShapes == {"int", "bool", "map[string]string", "[]string", "nil"}

\* a record of type typ with every field set to a non-zero value
Filled(typ) ==
    [f \in DOMAIN typ |->
        CASE typ[f].kind = "string" -> <<"Z">>
          [] typ[f].kind = "int" -> 5
          [] typ[f].kind = "float64" -> 15
          [] typ[f].kind = "bool" -> TRUE
          [] OTHER -> <<Str(<<"Z">>)>>]

Types == {Car, CarExt}

\* the destinations a caller passes
Dests ==
    {StructPtr(typ, Zero(typ)) : typ \in Types}
        \cup {StructPtr(typ, Filled(typ)) : typ \in Types}
        \cup UNION {{SlicePtr(typ, [i \in 1..n |-> Filled(typ)]) : typ \in Types} :
                        n \in 0..MaxPrior}

\* the orders in which the keys in S can be visited
Orders(S) ==
    {o \in [1..Cardinality(S) -> S] :
        \A i, j \in 1..Cardinality(S) : i # j => o[i] # o[j]}

\* the keys of a mapping in the reference order
CanonOrder(m) == SelectSeq(KeyList, LAMBDA k : k \in DOMAIN m)

RECURSIVE OrdersFor(_)
RECURSIVE ItemOrders(_)
RECURSIVE DocOrders(_)
\* the visit orders a call on data can take: one order for a mapping, one
\* per item for a list
OrdersFor(data) ==
    CASE data.shape = "map" -> Orders(DOMAIN data.m)
      [] data.shape = "slice" -> ItemOrders(data.items)
      [] data.shape = "sliceOfMaps" ->
            ItemOrders([i \in 1..Len(data.maps) |-> MapData(data.maps[i])])
      [] data.shape = "bytes" -> DocOrders(data.bytes)
      [] data.shape = "string" -> DocOrders(data.text)
      [] OTHER -> {<<>>}

\* the visit orders for what a document decodes to
DocOrders(d) ==
    IF d.j = "object" THEN Orders(DOMAIN d.obj)
    ELSE IF d.j = "array"
    THEN ItemOrders([i \in 1..Len(d.arr) |-> MapData(ObjMap(d.arr[i]))])
    ELSE {<<>>}

ItemOrders(items) ==
    IF items = <<>> THEN {<<>>}
    ELSE {<<o>> \o rest : o \in OrdersFor(Head(items)), rest \in ItemOrders(Tail(items))}

----------------------------------------------------------------------------
(* The state machine: one call of Unmarshal on a destination.              *)
(*   pc    "idle" before the call, "done" after it                         *)
(*   call  the input of the call and the visit order it took               *)
(*   pre   the destination as it was before the call                       *)
(*   out   the destination (result), the error returned (err) and the      *)
(*         steps the call took (log)                                       *)

\* the destination
dest == out.result

\* the error the call returned
err == out.err

\* the steps the call took
log == out.log

NoCall == [data |-> OtherData("none"), ord |-> <<>>]

Init ==
    /\ pc = "idle"
    /\ call = NoCall
    /\ out \in {Outcome(<<>>, d, <<>>) : d \in Dests}
    /\ pre = dest

\* err := Unmarshal(data, &dest) with data a map[string]interface{}
CallWithMap ==
    /\ pc = "idle"
    /\ \E m \in Mappings : \E ord \in OrdersFor(MapData(m)) :
            /\ out' = Unmarshal(MapData(m), dest, ord)
            /\ call' = [data |-> MapData(m), ord |-> ord]
            /\ pre' = dest
            /\ pc' = "done"

\* ... with data a []byte
CallWithBytes ==
    /\ pc = "idle"
    /\ \E d \in Docs : \E ord \in OrdersFor(BytesData(d)) :
            /\ out' = Unmarshal(BytesData(d), dest, ord)
            /\ call' = [data |-> BytesData(d), ord |-> ord]
            /\ pre' = dest
            /\ pc' = "done"

\* ... with data a string
CallWithString ==
    /\ pc = "idle"
    /\ \E d \in Docs : \E ord \in OrdersFor(StringData(d)) :
            /\ out' = Unmarshal(StringData(d), dest, ord)
            /\ call' = [data |-> StringData(d), ord |-> ord]
            /\ pre' = dest
            /\ pc' = "done"

\* ... with data a []interface{}
CallWithSlice ==
    /\ pc = "idle"
    /\ \E l \in Lists({MapData(m) : m \in ItemPool} \cup {OtherData("int")}) :
            \E ord \in OrdersFor(SliceData(l)) :
                /\ out' = Unmarshal(SliceData(l), dest, ord)
                /\ call' = [data |-> SliceData(l), ord |-> ord]
                /\ pre' = dest
                /\ pc' = "done"

\* ... with data a []map[string]interface{}
CallWithSliceOfMaps ==
    /\ pc = "idle"
    /\ \E l \in Lists(ItemPool) : \E ord \in OrdersFor(SliceOfMapsData(l)) :
            /\ out' = Unmarshal(SliceOfMapsData(l), dest, ord)
            /\ call' = [data |-> SliceOfMapsData(l), ord |-> ord]
            /\ pre' = dest
            /\ pc' = "done"

\* ... with data of any other dynamic type
CallWithOther ==
    /\ pc = "idle"
    /\ \E shape \in OtherShapes :
            /\ out' = Unmarshal(OtherData(shape), dest, <<>>)
            /\ call' = [data |-> OtherData(shape), ord |-> <<>>]
            /\ pre' = dest
            /\ pc' = "done"

Next ==
    \/ CallWithMap
    \/ CallWithBytes
    \/ CallWithString
    \/ CallWithSlice
    \/ CallWithSliceOfMaps
    \/ CallWithOther

Spec == Init /\ [][Next]_vars

----------------------------------------------------------------------------
(* Vocabulary of the properties. *)

Done == pc = "done"

\* the call was Unmarshal(mapping, pointer to a record)
MapCall == Done /\ call.data.shape = "map" /\ pre.kind = "struct"

\* the call was Unmarshal(list, pointer to a collection)
ListCall == Done /\ call.data.shape \in {"slice", "sliceOfMaps"} /\ pre.kind = "slice"

\* the items of the list of a ListCall, as interface{} values
ItemsOf(data) ==
    IF data.shape = "slice" THEN data.items
    ELSE [i \in 1..Len(data.maps) |-> MapData(data.maps[i])]

\* every field of the record type is of one of the five kinds
AllSupported(typ) == \A f \in DOMAIN typ : typ[f].kind \in SupportedKinds

\* key names a field of typ that can be set
Settable(typ, key) == key \in DOMAIN typ /\ typ[key].settable

\* the keys of m that name a settable field of a kind outside the five
UnsupportedKeys(typ, m) ==
    {k \in DOMAIN m : Settable(typ, k) /\ typ[k].kind \notin SupportedKinds}

\* the keys of m that name a settable field of a supported kind
FieldKeys(typ, m) ==
    {k \in DOMAIN m : Settable(typ, k) /\ typ[k].kind \in SupportedKinds}

\* those of them whose value does not convert to the field's kind
FailingKeys(typ, m) ==
    {k \in FieldKeys(typ, m) : ~Convert(typ[k].kind, m[k]).ok}

\* the keys of m that MapToStruct passes over
IgnoredKeys(typ, m) == {k \in DOMAIN m : ~Settable(typ, k)}

\* mapping m without key k
Without(m, k) == [x \in DOMAIN m \ {k} |-> m[x]]

\* the set of the elements of a sequence
Range(q) == {q[i] : i \in 1..Len(q)}

\* the first index of ord holding a key in S (S holds one of them)
FirstIn(ord, S) ==
    CHOOSE i \in 1..Len(ord) : ord[i] \in S /\ \A h \in 1..(i - 1) : ord[h] \notin S

\* the result of item i of a ListCall, converted on its own into a fresh record
ItemResult(i) ==
    Unmarshal(ItemsOf(call.data)[i], StructPtr(pre.type, Zero(pre.type)),
              OrdAt(call.ord, i))

\* the items of a ListCall whose own conversion returns an error
FailingItems == {i \in 1..Len(ItemsOf(call.data)) : ItemResult(i).err # <<>>}

\* the least element of a non-empty set of numbers
Least(S) == CHOOSE i \in S : \A h \in S : i <= h

\* the "item" steps of a history
ItemSteps(lg) == SelectSeq(lg, LAMBDA e : e[1] = "item")

\* the "key" steps of the history of a MapToStruct call, as the keys visited
KeysVisited(lg) == [i \in 1..Len(lg) |-> lg[i][2]]

RECURSIVE NoNestedInt(_)
\* no Go int inside a list value (an int there comes back from the encoded
\* form as a float64)
NoNestedInt(g) ==
    g.t = "slice" =>
        \A i \in 1..Len(g.l) : g.l[i].t # "int" /\ NoNestedInt(g.l[i])

\* every value of every mapping of the list survives encoding and decoding
\* up to the numeric type of top-level numbers
JsonFaithful(l) ==
    \A i \in 1..Len(l) : \A k \in DOMAIN l[i] : NoNestedInt(l[i][k])

\* the visit orders that follow the reference order of the keys
CanonDoc(d) ==
    IF d.j = "object" THEN CanonOrder(ObjMap(d))
    ELSE IF d.j = "array" THEN [i \in 1..Len(d.arr) |-> CanonOrder(ObjMap(d.arr[i]))]
    ELSE <<>>

CanonItem(item) == IF item.shape = "map" THEN CanonOrder(item.m) ELSE <<>>

CanonFor(data) ==
    CASE data.shape = "map" -> CanonOrder(data.m)
      [] data.shape = "slice" -> [i \in 1..Len(data.items) |-> CanonItem(data.items[i])]
      [] data.shape = "sliceOfMaps" ->
            [i \in 1..Len(data.maps) |-> CanonOrder(data.maps[i])]
      [] data.shape = "bytes" -> CanonDoc(data.bytes)
      [] data.shape = "string" -> CanonDoc(data.text)
      [] OTHER -> <<>>

\* the error the same call returns when every mapping is visited in the
\* reference order
CanonErr == Unmarshal(call.data, pre, CanonFor(call.data)).err

----------------------------------------------------------------------------
(* C1 *)

\* C1: after MapToStruct on a record whose fields are all of the five kinds,
\* every settable field named by a key holds the converted value if its
\* conversion succeeds and its pre-call value if it fails, whatever the
\* other keys do and in whatever order the keys are visited.
C1_PartialFailureTolerance ==
    (MapCall /\ AllSupported(pre.type)) =>
        \A k \in FieldKeys(pre.type, call.data.m) :
            dest.rec[k] = IF Convert(pre.type[k].kind, call.data.m[k]).ok
                          THEN Convert(pre.type[k].kind, call.data.m[k]).val
                          ELSE pre.rec[k]

\* two keys failed, one of them visited first, and a later key was still
\* converted and written over a non-zero value
C1_Witness ==
    /\ MapCall
    /\ pre = StructPtr(Car, Filled(Car))
    /\ Cardinality(FailingKeys(Car, call.data.m)) >= 2
    /\ call.ord[1] \in FailingKeys(Car, call.data.m)
    /\ \E k \in FieldKeys(Car, call.data.m) \ FailingKeys(Car, call.data.m) :
            dest.rec[k] # pre.rec[k]

----------------------------------------------------------------------------
(* C2 *)

\* the error is one FieldError per failing key, and nil when none fails
Aggregated(typ, m, e) ==
    /\ (e = <<>>) <=> (FailingKeys(typ, m) = {})
    /\ Len(e) = Cardinality(FailingKeys(typ, m))
    /\ \A i \in 1..Len(e) :
            /\ e[i].type = "FieldError"
            /\ e[i].field \in FailingKeys(typ, m)
            /\ e[i].fieldAffected
            /\ \A h \in 1..Len(e) : h # i => e[h].field # e[i].field

\* C2 as stated: Unmarshal of a mapping returns nil exactly when no matching
\* settable field fails conversion, and otherwise exactly one FieldError per
\* failing field, each naming its key and with IsFieldAffected() true.
C2_AsStated == MapCall => Aggregated(pre.type, call.data.m, err)

\* C2 amended: the same, when no key of the mapping names a settable field
\* of a kind outside the five (then the structural error is returned alone).
C2_FieldErrorAggregation ==
    (MapCall /\ UnsupportedKeys(pre.type, call.data.m) = {}) =>
        Aggregated(pre.type, call.data.m, err)

\* two fields failed and two FieldErrors came back
C2_Witness ==
    /\ MapCall
    /\ UnsupportedKeys(pre.type, call.data.m) = {}
    /\ Cardinality(FailingKeys(pre.type, call.data.m)) = 2
    /\ Len(err) = 2
    /\ Cardinality(DOMAIN call.data.m) = 3

----------------------------------------------------------------------------
(* C3 *)

\* C3: a field not named by any key keeps its pre-call value and has no
\* error; a key that names no field, or a field that cannot be set, changes
\* nothing: the call without that key returns the same error and leaves the
\* same destination.
C3_KeyTolerance ==
    MapCall =>
        /\ \A f \in DOMAIN pre.type \ DOMAIN call.data.m :
                /\ dest.rec[f] = pre.rec[f]
                /\ \A i \in 1..Len(err) :
                        err[i].type = "FieldError" => err[i].field # f
        /\ \A k \in IgnoredKeys(pre.type, call.data.m) :
                /\ k \in DOMAIN pre.type => dest.rec[k] = pre.rec[k]
                /\ MapToStruct(Without(call.data.m, k), pre,
                               SelectSeq(call.ord, LAMBDA x : x # k)).err = err
                /\ MapToStruct(Without(call.data.m, k), pre,
                               SelectSeq(call.ord, LAMBDA x : x # k)).result = dest

\* an unknown key and an unexported field's key were visited before a key
\* that was converted, and a set field without a key kept its value
C3_Witness ==
    /\ MapCall
    /\ pre = StructPtr(Car, Filled(Car))
    /\ {"Extra", "secret"} \subseteq DOMAIN call.data.m
    /\ Len(call.ord) = 3
    /\ call.ord[3] \in FieldKeys(Car, call.data.m)
    /\ dest.rec[call.ord[3]] # pre.rec[call.ord[3]]
    /\ err = <<>>

----------------------------------------------------------------------------
(* C4 *)

\* C4: when item i is the first of the list whose own Unmarshal returns an
\* error, the collection call returns exactly that error, starts no item
\* after i, and leaves the destination collection as it was.
C4_AbortOnFirstError ==
    (ListCall /\ FailingItems # {}) =>
        /\ err = ItemResult(Least(FailingItems)).err
        /\ ItemSteps(log) = [j \in 1..Least(FailingItems) |-> <<"item", j>>]
        /\ dest = pre

\* the second item failed after the first was converted, with an item left
\* over or not, into a collection that already held a record
C4_Witness ==
    /\ ListCall
    /\ FailingItems # {}
    /\ Least(FailingItems) = 2
    /\ pre.recs # <<>>
    /\ ItemResult(1).result.rec # Zero(pre.type)

----------------------------------------------------------------------------
(* C5 *)

\* the outcome of the call had the list been given as []interface{}
AsSlice == Unmarshal(SliceData(ItemsOf(call.data)), pre, call.ord)

\* the outcome of the call had the list been given as its JSON encoding
AsBytes == Unmarshal(BytesData(EncodeList(call.data.maps)), pre, call.ord)

----------------------------------------------------------------------------
(* C6 *)

\* C6: an input of a shape outside the five returns a single plain error,
\* not a FieldError, and leaves the destination as it was.
C6_UnsupportedShape ==
    (Done /\ call.data.shape \in OtherShapes) =>
        /\ Len(err) = 1
        /\ err[1].type = "error"
        /\ err[1] = Errorf("unsupported data type", call.data.shape)
        /\ dest = pre

\* Unmarshal(123, &car) on a car that held values
C6_Witness ==
    /\ Done
    /\ call.data.shape = "int"
    /\ pre = StructPtr(Car, Filled(Car))
    /\ err # <<>>

----------------------------------------------------------------------------
(* C7 *)

\* the bytes of the call decoded as a list of mappings, as interface{} items
DecodedItems ==
    [i \in 1..Len(DecodeSliceOfMaps(call.data.bytes).val) |->
        MapData(DecodeSliceOfMaps(call.data.bytes).val[i])]

\* C7: bytes are first decoded as one mapping; if that succeeds the mapping
\* is assigned as one record and the list decode is not tried; otherwise
\* the bytes are decoded as a list of mappings, which goes the collection
\* path; when both decodes fail the error is the second decode's and the
\* destination is as it was.
C7_BytesRouting ==
    (Done /\ call.data.shape = "bytes") =>
        IF DecodeMap(call.data.bytes).ok
        THEN /\ log[1] = <<"decodeMap">>
             /\ <<"decodeList">> \notin Range(log)
             /\ err = MapToStruct(DecodeMap(call.data.bytes).val, pre, call.ord).err
             /\ dest = MapToStruct(DecodeMap(call.data.bytes).val, pre, call.ord).result
        ELSE /\ SubSeq(log, 1, 2) = <<<<"decodeMap">>, <<"decodeList">>>>
             /\ IF DecodeSliceOfMaps(call.data.bytes).ok
                THEN /\ err = UnmarshalSlice(DecodedItems, pre, call.ord).err
                     /\ dest = UnmarshalSlice(DecodedItems, pre, call.ord).result
                ELSE /\ err = <<DecodeSliceOfMaps(call.data.bytes).err>>
                     /\ dest = pre

\* both decodes failed, with different errors
C7_Witness ==
    /\ Done /\ call.data.shape = "bytes"
    /\ ~DecodeMap(call.data.bytes).ok
    /\ ~DecodeSliceOfMaps(call.data.bytes).ok
    /\ DecodeMap(call.data.bytes).err # DecodeSliceOfMaps(call.data.bytes).err
    /\ err = <<DecodeSliceOfMaps(call.data.bytes).err>>

----------------------------------------------------------------------------
(* C8 *)

\* C8 as stated: when the record declares a field of a kind outside the
\* five, MapToStruct returns the structural error.
C8_AsStated ==
    (MapCall /\ ~AllSupported(pre.type)) =>
        /\ Len(err) = 1
        /\ err[1].type = "error"
        /\ err[1].msg = "unsupported field type"

\* C8 amended: when a key of the mapping names a settable field of a kind
\* outside the five, MapToStruct returns at the visit of the first such key
\* with the structural error alone, the FieldErrors collected before it
\* dropped, and visits no key after it: the fields of the keys after it
\* are as before the call.
C8_AbortOnUnsupportedField ==
    (MapCall /\ UnsupportedKeys(pre.type, call.data.m) # {}) =>
        /\ err = <<Errorf("unsupported field type",
                          pre.type[call.ord[FirstIn(call.ord,
                              UnsupportedKeys(pre.type, call.data.m))]].kind)>>
        /\ KeysVisited(log) =
                SubSeq(call.ord, 1,
                       FirstIn(call.ord, UnsupportedKeys(pre.type, call.data.m)))
        /\ \A i \in 1..Len(call.ord) :
                (/\ i > FirstIn(call.ord, UnsupportedKeys(pre.type, call.data.m))
                 /\ call.ord[i] \in DOMAIN pre.type)
                    => dest.rec[call.ord[i]] = pre.rec[call.ord[i]]

\* a key failed conversion, then the unsupported field's key was visited,
\* and a key was left unvisited
C8_Witness ==
    /\ MapCall
    /\ Len(call.ord) = 3
    /\ call.ord[1] \in FailingKeys(pre.type, call.data.m)
    /\ call.ord[2] \in UnsupportedKeys(pre.type, call.data.m)
    /\ call.ord[3] \in FieldKeys(pre.type, call.data.m)
            \ FailingKeys(pre.type, call.data.m)
    /\ pre.rec = Zero(pre.type)
    /\ Len(log) = 2

----------------------------------------------------------------------------
(* C9 *)

\* C9 as stated: the error of a call is the same, FieldErrors in the same
\* order, whatever the order in which the keys are visited.
C9_AsStated == Done => err = CanonErr

\* the errors of e without their order, a plain error by its message alone
ErrorSet(e) ==
    {IF e[i].type = "FieldError" THEN e[i] ELSE [type |-> "error", msg |-> e[i].msg] :
        i \in 1..Len(e)}

\* C9 amended: whatever the visit order, the error is of the same kind and
\* an aggregate holds the same FieldErrors; their order varies, and so does
\* the field type a structural error names when keys name several
\* unsupported fields.
C9_SameErrorsAnyOrder ==
    Done => (Len(err) = Len(CanonErr) /\ ErrorSet(err) = ErrorSet(CanonErr))

\* two FieldErrors came back in another order than under the reference
\* order of the keys
C9_Witness ==
    /\ MapCall
    /\ Len(err) = 2
    /\ err # CanonErr
    /\ err[1].type = "FieldError"

----------------------------------------------------------------------------
(* C10 *)

\* C10: a collection call that returns nil leaves the records the
\* destination held, in their order, followed by one record per item in
\* input order, each converted into a fresh zero-valued record.
C10_AppendNotReplace ==
    (ListCall /\ err = <<>>) =>
        /\ dest.kind = "slice" /\ dest.type = pre.type
        /\ dest.recs =
                pre.recs \o [i \in 1..Len(ItemsOf(call.data)) |-> ItemResult(i).result.rec]

\* two different records were appended to a collection that held one
C10_Witness ==
    /\ ListCall
    /\ err = <<>>
    /\ pre.recs # <<>>
    /\ Len(ItemsOf(call.data)) = 2
    /\ Len(dest.recs) = Len(pre.recs) + 2
    /\ dest.recs[Len(pre.recs) + 1] # dest.recs[Len(pre.recs) + 2]

====
